---- MODULE Spec2Model ----
(***************************************************************************)
(* Klondike solitaire (soltrain): deck construction, shuffle, deal, the    *)
(* placement validators and the GameBoard handlers that mutate the game    *)
(* state (draw, drag start, drop, restart, win check).                     *)
(*                                                                         *)
(* Indices of the source (columnIndex, cardIndex, dropZone.index, the loop *)
(* index of the shuffle) are kept 0-based as in the source; TLA+ sequences *)
(* are 1-based, so element k of a source array a is a[k + 1] here.         *)
(***************************************************************************)
EXTENDS Integers, Sequences, FiniteSets, TLC

(***************************************************************************)
(* Bounds of the model.  The program plays with 13 ranks and 7 tableau     *)
(* piles; the model plays the same game on a shortened rank ladder         *)
(* A,2,..,K of NumRanks ranks and NumPiles piles.                          *)
(***************************************************************************)
NumRanks == 2

NumPiles == 2

\* Math.random() returns one of 0/D, 1/D, .., (D-1)/D with D = RandomDenominator
RandomDenominator == 4

\* the games played: game r is dealt with Math.random() returning r / D throughout
NumDeals == 1

\* longest deck handed to shuffleDeck called on its own
MaxShuffleLen == 4

\* calls of createDeck in a row
NumCalls == 2

\* longest run and longest target pile handed to a validator called on its own
MaxRunLen == 2

MaxTargetLen == 2

(***************************************************************************)
(* Card data: src/types/card.ts, src/utils/deck.ts                         *)
(***************************************************************************)
suits == <<"hearts", "diamonds", "clubs", "spades">>

RankNames == <<"A", "2", "3", "4", "5", "6", "7", "8", "9", "10", "J", "Q", "K">>

\* the rank ladder: the first NumRanks - 1 ranks and the King on top
ranks == SubSeq(RankNames, 1, NumRanks - 1) \o <<"K">>

rankOrder == SubSeq(RankNames, 1, NumRanks - 1) \o <<"K">>

NumFoundations == 4

\* { suit, rank, id: `${suit}-${rank}` }
CardData(s, r) == [suit |-> s, rank |-> r, id |-> s \o "-" \o r]

\* mutant: the loops are nested the other way round
createDeckFrom_RankMajor(suitList, rankList) ==
    [k \in 1..(Len(suitList) * Len(rankList)) |->
        CardData(suitList[((k - 1) % Len(suitList)) + 1],
                 rankList[((k - 1) \div Len(suitList)) + 1])]

\* for (suit of suitList) for (rank of rankList) deck.push(..)
createDeckFrom(suitList, rankList) ==
    [k \in 1..(Len(suitList) * Len(rankList)) |->
        CardData(suitList[((k - 1) \div Len(rankList)) + 1],
                 rankList[((k - 1) % Len(rankList)) + 1])]

createDeck == createDeckFrom(suits, ranks)

Cards == {createDeck[k] : k \in 1..Len(createDeck)}

(***************************************************************************)
(* Array helpers (JavaScript Array methods used by the source)             *)
(***************************************************************************)
Last(a) == a[Len(a)]

\* a.pop(): removes the last element; an empty array stays empty
Pop(a) == IF Len(a) = 0 THEN a ELSE SubSeq(a, 1, Len(a) - 1)

\* [...a].reverse()
Reverse(a) == [k \in 1..Len(a) |-> a[Len(a) + 1 - k]]

\* a.slice(start): the elements from 0-based index start to the end
Slice(a, start) == SubSeq(a, start + 1, Len(a))

\* the elements a.splice(start, count) removes: start is clamped to the
\* length of a and count to what is left from there
Spliced(a, start, count) ==
    LET from == IF start > Len(a) THEN Len(a) ELSE start
        n == IF count > Len(a) - from THEN Len(a) - from ELSE count
    IN  SubSeq(a, from + 1, from + n)

\* a after a.splice(start, count): a without the elements it removes
Splice(a, start, count) ==
    LET from == IF start > Len(a) THEN Len(a) ELSE start
        n == IF count > Len(a) - from THEN Len(a) - from ELSE count
    IN  SubSeq(a, 1, from) \o SubSeq(a, from + n + 1, Len(a))

\* mutant: a[i] = a[j] only
Swap_Overwrite(a, i, j) == [a EXCEPT ![i + 1] = a[j + 1]]

\* [a[i], a[j]] = [a[j], a[i]] with 0-based i, j
Swap(a, i, j) == [a EXCEPT ![i + 1] = a[j + 1], ![j + 1] = a[i + 1]]

\* a.indexOf(x), 0-based, -1 when absent
IndexOf(a, x) ==
    IF \E k \in 1..Len(a) : a[k] = x
    THEN (CHOOSE k \in 1..Len(a) : a[k] = x /\ \A m \in 1..(k - 1) : a[m] # x) - 1
    ELSE -1

RECURSIVE SumLengths(_)
\* piles.reduce((sum, pile) => sum + pile.length, 0)
SumLengths(piles) ==
    IF Len(piles) = 0 THEN 0
    ELSE Len(piles[1]) + SumLengths(Tail(piles))

(***************************************************************************)
(* shuffleDeck: src/utils/deck.ts                                          *)
(***************************************************************************)
\* mutant: Math.floor(Math.random() * i), an index below i
RandomIndex_BelowI(r, i) == (r * i) \div RandomDenominator

\* Math.floor(Math.random() * (i + 1)) when Math.random() returns r / D
RandomIndex(r, i) == (r * (i + 1)) \div RandomDenominator

RECURSIVE ShuffleLoop(_, _, _)
\* for (i = length - 1; i > 0; i--) swap(i, j); rnd[i] is the value drawn at i
ShuffleLoop(shuffled, i, rnd) ==
    IF i > 0
    THEN ShuffleLoop(Swap(shuffled, i, RandomIndex(rnd[i], i)), i - 1, rnd)
    ELSE shuffled

\* const shuffled = [...deck]; the loop; return shuffled
shuffleDeck(deck, rnd) == ShuffleLoop(deck, Len(deck) - 1, rnd)

\* the array handed to shuffleDeck, after the call: the loop writes to the
\* copy [...deck] only
deckAfterShuffle(deck, rnd) == deck

\* the random sources of a game: Math.random() returns the same value r / D at
\* every iteration of one shuffle
GameRandomSources ==
    {[i \in 1..(Len(createDeck) - 1) |-> r] : r \in 0..(NumDeals - 1)}

(***************************************************************************)
(* dealCards: src/utils/deck.ts                                            *)
(***************************************************************************)
RECURSIVE DealLoop(_, _, _, _, _)
\* mutant: deckIndex is advanced by one card less than the pile received
DealLoop_Overlapping(deck, i, deckIndex, piles, numPiles) ==
    IF i < numPiles
    THEN DealLoop(deck, i + 1, deckIndex + i,
                  Append(piles, [cards |-> SubSeq(deck, deckIndex + 1, deckIndex + i + 1),
                                 faceUpCount |-> 1]),
                  numPiles)
    ELSE [tableau |-> piles, deckIndex |-> deckIndex]

\* for (i = 0; i < 7; i++) { numCards = i + 1; cards = deck[deckIndex ..]; push }
\* with numPiles for the literal 7
DealLoop(deck, i, deckIndex, piles, numPiles) ==
    IF i < numPiles
    THEN DealLoop(deck, i + 1, deckIndex + (i + 1),
                  Append(piles, [cards |-> SubSeq(deck, deckIndex + 1, deckIndex + i + 1),
                                 faceUpCount |-> 1]),
                  numPiles)
    ELSE [tableau |-> piles, deckIndex |-> deckIndex]

\* the body of dealCards after the shuffle, dealing numPiles tableau piles
dealCardsInto(deck, numPiles) ==
    LET dealt == DealLoop(deck, 0, 0, <<>>, numPiles)
    IN  [tableau |-> dealt.tableau,
         foundation |-> [k \in 1..NumFoundations |-> <<>>],
         stock |-> Slice(deck, dealt.deckIndex),
         waste |-> <<>>]

\* the deal of the games played here: NumPiles tableau piles
dealCards(deck) == dealCardsInto(deck, NumPiles)

\* the tableau piles of the program: the literal 7 of dealCards
TableauPiles == 7

(***************************************************************************)
(* Validators: src/utils/validation.ts                                     *)
(***************************************************************************)
getRankValue(rank) == IndexOf(rankOrder, rank) + 1

isRed(card) == card.suit = "hearts" \/ card.suit = "diamonds"

isBlack(card) == card.suit = "clubs" \/ card.suit = "spades"

\* mutant: only a red card on a black one alternates
alternatesColor_RedOnBlackOnly(card1, card2) == isRed(card1) /\ isBlack(card2)

alternatesColor(card1, card2) ==
    (isRed(card1) /\ isBlack(card2)) \/ (isBlack(card1) /\ isRed(card2))

\* cardsToPlace[0] is undefined when cardsToPlace is empty, and reading its
\* .rank (on either branch) throws a TypeError
canPlaceOnTableauThrows(cardsToPlace, targetPile) == Len(cardsToPlace) = 0

\* mutant: on a non-empty pile only the colours are compared
canPlaceOnTableau_NoRankCheck(cardsToPlace, targetPile) ==
    IF Len(targetPile) = 0
    THEN cardsToPlace[1].rank = "K"
    ELSE alternatesColor(cardsToPlace[1], targetPile[Len(targetPile)])

\* mutant: on a non-empty pile only the ranks are compared
canPlaceOnTableau_NoColorCheck(cardsToPlace, targetPile) ==
    IF Len(targetPile) = 0
    THEN cardsToPlace[1].rank = "K"
    ELSE getRankValue(cardsToPlace[1].rank)
            = getRankValue(targetPile[Len(targetPile)].rank) - 1

\* mutant: the two cards are one rank apart, either way
canPlaceOnTableau_OneApart(cardsToPlace, targetPile) ==
    LET cardToPlace == cardsToPlace[1]
    IN  IF Len(targetPile) = 0
        THEN cardToPlace.rank = "K"
        ELSE LET targetCard == targetPile[Len(targetPile)]
                 cardValue == getRankValue(cardToPlace.rank)
                 targetValue == getRankValue(targetCard.rank)
             IN  /\ (cardValue = targetValue - 1 \/ cardValue = targetValue + 1)
                 /\ alternatesColor(cardToPlace, targetCard)

\* the verdict when nothing is thrown
canPlaceOnTableau(cardsToPlace, targetPile) ==
    LET cardToPlace == cardsToPlace[1]
    IN  IF Len(targetPile) = 0
        THEN cardToPlace.rank = "K"
        ELSE LET targetCard == targetPile[Len(targetPile)]
                 cardValue == getRankValue(cardToPlace.rank)
                 targetValue == getRankValue(targetCard.rank)
                 isOneLower == cardValue = targetValue - 1
                 colorsAlternate == alternatesColor(cardToPlace, targetCard)
             IN  isOneLower /\ colorsAlternate

\* mutant: no length check, a run is judged by its first card
canPlaceOnFoundation_Truncating(cardsToPlace, targetPile) ==
    LET cardToPlace == cardsToPlace[1]
    IN  /\ Len(cardsToPlace) >= 1
        /\ IF Len(targetPile) = 0
           THEN cardToPlace.rank = "A"
           ELSE /\ cardToPlace.suit = targetPile[Len(targetPile)].suit
                /\ getRankValue(cardToPlace.rank)
                       = getRankValue(targetPile[Len(targetPile)].rank) + 1

canPlaceOnFoundation(cardsToPlace, targetPile) ==
    IF Len(cardsToPlace) # 1
    THEN FALSE
    ELSE LET cardToPlace == cardsToPlace[1]
         IN  IF Len(targetPile) = 0
             THEN cardToPlace.rank = "A"
             ELSE LET targetCard == targetPile[Len(targetPile)]
                  IN  IF cardToPlace.suit # targetCard.suit
                      THEN FALSE
                      ELSE getRankValue(cardToPlace.rank)
                               = getRankValue(targetCard.rank) + 1

(***************************************************************************)
(* State of the GameBoard component                                        *)
(***************************************************************************)
\* tableau:     gameState.tableau, piles [cards, faceUpCount]
\* foundation:  gameState.foundation, 4 piles
\* stock:       gameState.stock, top = last element
\* waste:       gameState.waste, top = last element
\* draggedCard: DragState | null
\* isWinner:    the win flag
\* call:        a validator called on its own: its arguments and its result
\* last:        history: the handler that ran last, what it saw and, for a
\*              press of the stock or a drop, the game state it was called in
VARIABLES tableau, foundation, stock, waste, draggedCard, isWinner, call, last

vars == <<tableau, foundation, stock, waste, draggedCard, isWinner, call, last>>

game == <<tableau, foundation, stock, waste>>

NoDrag == [source |-> "none"]

NoCall == [fn |-> "none"]

\* the drop zones registered by measureAndRegisterZone
DropZones ==
    {[type |-> "tableau", index |-> k] : k \in 0..(NumPiles - 1)}
    \cup {[type |-> "foundation", index |-> k] : k \in 0..(NumFoundations - 1)}

(***************************************************************************)
(* Win check effect: GameBoard useEffect on [gameState]                    *)
(***************************************************************************)
\* the literal 52 of the effect: the size of the full deck
FullDeckSize == Len(suits) * Len(ranks)

\* mutant: the second test does not look at the stock and the waste
checkWin_TableauOnly(t, f, s, w) ==
    \/ SumLengths(f) = FullDeckSize
    \/ \A k \in 1..Len(t) :
            Len(t[k].cards) = 0 \/ t[k].faceUpCount = Len(t[k].cards)

checkWin(t, f, s, w) ==
    LET totalFoundationCards == SumLengths(f)
        allTableauFaceUp ==
            \A k \in 1..Len(t) :
                Len(t[k].cards) = 0 \/ t[k].faceUpCount = Len(t[k].cards)
        stockAndWasteEmpty == Len(s) = 0 /\ Len(w) = 0
    IN  IF totalFoundationCards = FullDeckSize
        THEN TRUE
        ELSE allTableauFaceUp /\ stockAndWasteEmpty

(***************************************************************************)
(* handleDrop: the validation and the two halves of the move               *)
(***************************************************************************)
\* mutant: foundation pile k takes the cards of suits[k] only
isValid_SuitIndexed(d, dropZone, t, f) ==
    IF dropZone.type = "tableau"
    THEN canPlaceOnTableau(d.cards, t[dropZone.index + 1].cards)
    ELSE /\ canPlaceOnFoundation(d.cards, f[dropZone.index + 1])
         /\ d.cards[1].suit = suits[dropZone.index + 1]

\* mutant: a drop on a foundation is not validated
isValid_AnyOnFoundation(d, dropZone, t, f) ==
    IF dropZone.type = "tableau"
    THEN canPlaceOnTableau(d.cards, t[dropZone.index + 1].cards)
    ELSE Len(d.cards) = 1

\* "Validate the drop"
isValid(d, dropZone, t, f) ==
    IF dropZone.type = "tableau"
    THEN canPlaceOnTableau(d.cards, t[dropZone.index + 1].cards)
    ELSE IF dropZone.type = "foundation"
         THEN canPlaceOnFoundation(d.cards, f[dropZone.index + 1])
         ELSE FALSE

\* mutant: the faceUpCount of the source is left as it was
AdjustFaceUpCount_NoDecrement(faceUpCount, isFaceUp, numCardsBeingMoved) == faceUpCount

\* "Adjust faceUpCount based on how many face-up cards were removed"
AdjustFaceUpCount(faceUpCount, isFaceUp, numCardsBeingMoved) ==
    IF isFaceUp /\ faceUpCount > 0
    THEN IF faceUpCount - numCardsBeingMoved < 0
         THEN 0
         ELSE faceUpCount - numCardsBeingMoved
    ELSE faceUpCount

\* mutant: the new top card is never flipped
FlipTopCard_Never(cards, faceUpCount) == faceUpCount

\* "If no face-up cards remain but there are still cards, flip the top card"
FlipTopCard(cards, faceUpCount) ==
    IF Len(cards) > 0 /\ faceUpCount = 0 THEN 1 ELSE faceUpCount

\* "Remove cards from source" of a tableau drag
RemoveFromTableau(d, t) ==
    LET tableauPile == t[d.columnIndex + 1]
        numCards == Len(tableauPile.cards)
        numCardsBeingMoved == Len(d.cards)
        isFaceUp == d.cardIndex >= numCards - tableauPile.faceUpCount
        spliced == Splice(tableauPile.cards, d.cardIndex, numCardsBeingMoved)
        adjusted == AdjustFaceUpCount(tableauPile.faceUpCount, isFaceUp,
                                      numCardsBeingMoved)
    IN  [t EXCEPT ![d.columnIndex + 1] =
            [cards |-> spliced, faceUpCount |-> FlipTopCard(spliced, adjusted)]]

\* mutant: the waste keeps its top card
RemoveFromSource_KeepWaste(d, g) ==
    IF d.source = "tableau"
    THEN [g EXCEPT !.tableau = RemoveFromTableau(d, g.tableau)]
    ELSE g

\* "Remove cards from source": the game after the removal
RemoveFromSource(d, g) ==
    IF d.source = "tableau"
    THEN [g EXCEPT !.tableau = RemoveFromTableau(d, g.tableau)]
    ELSE [g EXCEPT !.waste = Pop(g.waste)]

\* mutant: a tableau destination counts one more face-up card, whatever the run
AddToDestination_OneFaceUp(d, dropZone, g) ==
    IF dropZone.type = "tableau"
    THEN [g EXCEPT !.tableau[dropZone.index + 1] =
            [cards |-> @.cards \o d.cards, faceUpCount |-> @.faceUpCount + 1]]
    ELSE [g EXCEPT !.foundation[dropZone.index + 1] = Append(@, d.cards[1])]

\* mutant: a foundation receives the card at the bottom (unshift)
AddToDestination_Unshift(d, dropZone, g) ==
    IF dropZone.type = "tableau"
    THEN [g EXCEPT !.tableau[dropZone.index + 1] =
            [cards |-> @.cards \o d.cards, faceUpCount |-> @.faceUpCount + Len(d.cards)]]
    ELSE [g EXCEPT !.foundation[dropZone.index + 1] = <<d.cards[1]>> \o @]

\* mutant: a tableau destination keeps its faceUpCount
AddToDestination_KeepFaceUpCount(d, dropZone, g) ==
    IF dropZone.type = "tableau"
    THEN [g EXCEPT !.tableau[dropZone.index + 1] =
            [cards |-> @.cards \o d.cards, faceUpCount |-> @.faceUpCount]]
    ELSE [g EXCEPT !.foundation[dropZone.index + 1] = Append(@, d.cards[1])]

\* "Add cards to destination": the game after the insertion
AddToDestination(d, dropZone, g) ==
    IF dropZone.type = "tableau"
    THEN [g EXCEPT !.tableau[dropZone.index + 1] =
            [cards |-> @.cards \o d.cards,
             faceUpCount |-> @.faceUpCount + Len(d.cards)]]
    ELSE IF dropZone.type = "foundation"
         THEN [g EXCEPT !.foundation[dropZone.index + 1] = Append(@, d.cards[1])]
         ELSE g

GameState == [tableau |-> tableau, foundation |-> foundation,
              stock |-> stock, waste |-> waste]

\* setGameState(g) followed by the win check effect
SetGameState(g) ==
    /\ tableau' = g.tableau
    /\ foundation' = g.foundation
    /\ stock' = g.stock
    /\ waste' = g.waste
    /\ isWinner' = (isWinner \/ checkWin(g.tableau, g.foundation, g.stock, g.waste))

\* mutant: the move is performed whatever the validator says
handleDrop_NoValidation(dropZone) ==
    IF draggedCard = NoDrag
    THEN UNCHANGED <<tableau, foundation, stock, waste, isWinner>>
    ELSE SetGameState(AddToDestination(draggedCard, dropZone,
                          RemoveFromSource(draggedCard, GameState)))

handleDrop(dropZone) ==
    IF draggedCard = NoDrag
    THEN UNCHANGED <<tableau, foundation, stock, waste, isWinner>>
    ELSE IF ~isValid(draggedCard, dropZone, tableau, foundation)
         THEN UNCHANGED <<tableau, foundation, stock, waste, isWinner>>
         ELSE SetGameState(AddToDestination(draggedCard, dropZone,
                               RemoveFromSource(draggedCard, GameState)))

(***************************************************************************)
(* handleDrawCard, handleRefresh                                           *)
(***************************************************************************)
\* mutant: the card is taken from the bottom of the stock (shift for pop)
DrawResult_Shift(g) ==
    IF Len(g.stock) > 0
    THEN [g EXCEPT !.stock = Tail(g.stock), !.waste = Append(g.waste, g.stock[1])]
    ELSE IF Len(g.waste) > 0
         THEN [g EXCEPT !.stock = Reverse(g.waste), !.waste = <<>>]
         ELSE g

\* mutant: the waste is recycled without being reversed
DrawResult_NoReverse(g) ==
    IF Len(g.stock) > 0
    THEN [g EXCEPT !.stock = Pop(g.stock), !.waste = Append(g.waste, Last(g.stock))]
    ELSE IF Len(g.waste) > 0
         THEN [g EXCEPT !.stock = g.waste, !.waste = <<>>]
         ELSE g

\* mutant: only the recycling is guarded; with both piles empty the result of
\* stock.pop(), undefined, is pushed onto the waste
DrawResult_PopUnguarded(g) ==
    IF Len(g.stock) = 0 /\ Len(g.waste) > 0
    THEN [g EXCEPT !.stock = Reverse(g.waste), !.waste = <<>>]
    ELSE IF Len(g.stock) > 0
         THEN [g EXCEPT !.stock = Pop(g.stock), !.waste = Append(g.waste, Last(g.stock))]
         ELSE [g EXCEPT !.waste = <<CardData("undefined", "undefined")>>]

\* mutant: the recycling press also draws the first card of the new stock
DrawResult_RecycleAndDraw(g) ==
    IF Len(g.stock) > 0
    THEN [g EXCEPT !.stock = Pop(g.stock), !.waste = Append(g.waste, Last(g.stock))]
    ELSE IF Len(g.waste) > 0
         THEN [g EXCEPT !.stock = Pop(Reverse(g.waste)), !.waste = <<g.waste[1]>>]
         ELSE g

\* mutant: a press draws two cards when the stock holds two
DrawResult_DrawTwo(g) ==
    IF Len(g.stock) > 1
    THEN [g EXCEPT !.stock = Pop(Pop(g.stock)),
                   !.waste = g.waste \o <<Last(g.stock), Last(Pop(g.stock))>>]
    ELSE IF Len(g.stock) > 0
         THEN [g EXCEPT !.stock = Pop(g.stock), !.waste = Append(g.waste, Last(g.stock))]
         ELSE IF Len(g.waste) > 0
              THEN [g EXCEPT !.stock = Reverse(g.waste), !.waste = <<>>]
              ELSE g

DrawResult(g) ==
    IF Len(g.stock) > 0
    THEN [g EXCEPT !.stock = Pop(g.stock), !.waste = Append(g.waste, Last(g.stock))]
    ELSE IF Len(g.waste) > 0
         THEN [g EXCEPT !.stock = Reverse(g.waste), !.waste = <<>>]
         ELSE g

handleDrawCard ==
    /\ SetGameState(DrawResult(GameState))
    /\ UNCHANGED draggedCard
    /\ last' = [op |-> IF Len(stock) > 0 THEN "draw"
                       ELSE IF Len(waste) > 0 THEN "recycle" ELSE "drawNothing",
                before |-> GameState]

handleRefresh ==
    \E rnd \in GameRandomSources :
        LET g == dealCards(shuffleDeck(createDeck, rnd))
        IN  /\ tableau' = g.tableau
            /\ foundation' = g.foundation
            /\ stock' = g.stock
            /\ waste' = g.waste
            /\ draggedCard' = NoDrag
            /\ isWinner' = checkWin(g.tableau, g.foundation, g.stock, g.waste)
            /\ UNCHANGED call
            /\ last' = [op |-> "deal"]

(***************************************************************************)
(* Pan responders of the tableau cards and of the waste pile               *)
(***************************************************************************)
\* mutant: every card of a column gets a pan responder
isFaceUpCard_AnyCard(columnIndex, cardIndex) ==
    cardIndex \in 0..(Len(tableau[columnIndex + 1].cards) - 1)

\* mutant: the card under the face-up cards gets a pan responder too
isFaceUpCard_OneBelow(columnIndex, cardIndex) ==
    LET pile == tableau[columnIndex + 1]
        numCards == Len(pile.cards)
    IN  /\ cardIndex \in 0..(numCards - 1)
        /\ cardIndex >= numCards - pile.faceUpCount - 1

\* renderTableauColumn gives a pan responder to the face-up cards only
isFaceUpCard(columnIndex, cardIndex) ==
    LET pile == tableau[columnIndex + 1]
        numCards == Len(pile.cards)
    IN  /\ cardIndex \in 0..(numCards - 1)
        /\ cardIndex >= numCards - pile.faceUpCount

onCardPanResponderGrant(columnIndex, cardIndex) ==
    /\ isFaceUpCard(columnIndex, cardIndex)
    /\ draggedCard' = [source |-> "tableau",
                       columnIndex |-> columnIndex,
                       cardIndex |-> cardIndex,
                       cards |-> Slice(tableau[columnIndex + 1].cards, cardIndex)]
    /\ UNCHANGED <<tableau, foundation, stock, waste, isWinner, call>>
    /\ last' = [op |-> "grant"]

\* the part of the tableau grant that runs in the handler: cardsToMove is
\* sliced from the pile as it is now and cardRef.measure is asked for the
\* card's position; draggedCard is not touched.  One measure is in flight at
\* a time.
onCardPanResponderGrantMeasure(columnIndex, cardIndex) ==
    /\ isFaceUpCard(columnIndex, cardIndex)
    /\ call = NoCall
    /\ call' = [fn |-> "measure",
                drag |-> [source |-> "tableau",
                          columnIndex |-> columnIndex,
                          cardIndex |-> cardIndex,
                          cards |-> Slice(tableau[columnIndex + 1].cards, cardIndex)]]
    /\ UNCHANGED <<tableau, foundation, stock, waste, draggedCard, isWinner>>
    /\ last' = [op |-> "measure"]

\* the callback of cardRef.measure: setDraggedCard with the cards the grant
\* sliced; during is the handler that ran last before the answer came
measureCallback ==
    /\ call.fn = "measure"
    /\ draggedCard' = call.drag
    /\ call' = NoCall
    /\ UNCHANGED <<tableau, foundation, stock, waste, isWinner>>
    /\ last' = [op |-> "measured", during |-> last.op]

onWastePanResponderGrant ==
    /\ Len(waste) > 0
    /\ draggedCard' = [source |-> "waste",
                       columnIndex |-> -1,
                       cardIndex |-> 0,
                       cards |-> <<waste[Len(waste)]>>]
    /\ UNCHANGED <<tableau, foundation, stock, waste, isWinner, call>>
    /\ last' = [op |-> "grant"]

\* what handleDrop saw: a move (with the drag, the zone and the source pile as
\* they were), a rejected drop (onto the drag's own pile or not, with the
\* length of the run), or no drag in progress; before is the game
\* state the handler was called in
DropRecord(dropZone) ==
    IF draggedCard = NoDrag
    THEN [op |-> "noDrag", before |-> GameState]
    ELSE IF ~isValid(draggedCard, dropZone, tableau, foundation)
         THEN [op |-> "rejected", before |-> GameState,
               ontoSource |-> /\ draggedCard.source = "tableau"
                              /\ dropZone.type = "tableau"
                              /\ dropZone.index = draggedCard.columnIndex,
               runLength |-> Len(draggedCard.cards)]
         ELSE [op |-> "moved",
               before |-> GameState,
               drag |-> draggedCard,
               zone |-> dropZone,
               measuredDuring |->
                    IF last.op = "measured" THEN last.during ELSE "none",
               sourceLength |->
                    IF draggedCard.source = "tableau"
                    THEN Len(tableau[draggedCard.columnIndex + 1].cards)
                    ELSE Len(waste),
               sourceFaceUpCount |->
                    IF draggedCard.source = "tableau"
                    THEN tableau[draggedCard.columnIndex + 1].faceUpCount
                    ELSE 0]

\* release over a drop zone: handleDrop(dropZone); setDraggedCard(null)
onPanResponderRelease(dropZone) ==
    /\ handleDrop(dropZone)
    /\ draggedCard' = NoDrag
    /\ UNCHANGED call
    /\ last' = DropRecord(dropZone)

\* release outside every drop zone: setDraggedCard(null) only
onPanResponderReleaseOutside ==
    /\ draggedCard # NoDrag
    /\ draggedCard' = NoDrag
    /\ UNCHANGED <<tableau, foundation, stock, waste, isWinner, call>>
    /\ last' = [op |-> "release"]

(***************************************************************************)
(* The game: one gesture at a time (a drag, once granted, is released      *)
(* before the next press or drag)                                          *)
(***************************************************************************)
Init ==
    \E rnd \in GameRandomSources :
        LET g == dealCards(shuffleDeck(createDeck, rnd))
        IN  /\ tableau = g.tableau
            /\ foundation = g.foundation
            /\ stock = g.stock
            /\ waste = g.waste
            /\ draggedCard = NoDrag
            /\ isWinner = checkWin(g.tableau, g.foundation, g.stock, g.waste)
            /\ call = NoCall
            /\ last = [op |-> "deal"]

DragCard ==
    /\ draggedCard = NoDrag
    /\ \E columnIndex \in 0..(NumPiles - 1) :
        \E cardIndex \in 0..(Len(tableau[columnIndex + 1].cards) - 1) :
            onCardPanResponderGrant(columnIndex, cardIndex)

DragWaste ==
    /\ draggedCard = NoDrag
    /\ onWastePanResponderGrant

Release ==
    \E dropZone \in DropZones : onPanResponderRelease(dropZone)

ReleaseOutside == onPanResponderReleaseOutside

PressStock ==
    /\ draggedCard = NoDrag
    /\ handleDrawCard
    /\ UNCHANGED call

PressRefresh ==
    /\ draggedCard = NoDrag
    /\ handleRefresh

Next ==
    \/ DragCard
    \/ DragWaste
    \/ Release
    \/ ReleaseOutside
    \/ PressStock
    \/ PressRefresh

Spec == Init /\ [][Next]_vars

(***************************************************************************)
(* The game with its handlers in any order: a press of the stock or of the *)
(* restart button, or a new drag, may come while draggedCard is set (no    *)
(* handler looks at draggedCard but handleDrop, and only handleRefresh and *)
(* a release clear it).  The game is followed up to the first drop whose   *)
(* drag did not hold the top cards of its source.                          *)
(***************************************************************************)
\* the cards handleDrop's removal takes from the source of drag d in game g:
\* splice(cardIndex, cards.length) of the tableau pile, or waste.pop()
RemovedFromSource(d, g) ==
    IF d.source = "tableau"
    THEN Spliced(g.tableau[d.columnIndex + 1].cards, d.cardIndex, Len(d.cards))
    ELSE IF Len(g.waste) > 0 THEN <<Last(g.waste)>> ELSE <<>>

\* the last drop inserted other cards than it removed
StaleDrop ==
    /\ last.op = "moved"
    /\ RemovedFromSource(last.drag, last.before) # last.drag.cards

InterleavedDragCard ==
    /\ ~StaleDrop
    /\ \E columnIndex \in 0..(NumPiles - 1) :
        \E cardIndex \in 0..(Len(tableau[columnIndex + 1].cards) - 1) :
            onCardPanResponderGrant(columnIndex, cardIndex)

InterleavedDragWaste ==
    /\ ~StaleDrop
    /\ onWastePanResponderGrant

InterleavedRelease ==
    /\ ~StaleDrop
    /\ \E dropZone \in DropZones : onPanResponderRelease(dropZone)

InterleavedReleaseOutside ==
    /\ ~StaleDrop
    /\ onPanResponderReleaseOutside

InterleavedPressStock ==
    /\ ~StaleDrop
    /\ handleDrawCard
    /\ UNCHANGED call

InterleavedPressRefresh ==
    /\ ~StaleDrop
    /\ handleRefresh

NextInterleaved ==
    \/ InterleavedDragCard
    \/ InterleavedDragWaste
    \/ InterleavedRelease
    \/ InterleavedReleaseOutside
    \/ InterleavedPressStock
    \/ InterleavedPressRefresh

SpecInterleaved == Init /\ [][NextInterleaved]_vars

(***************************************************************************)
(* The game with one gesture at a time and the tableau grant in its two    *)
(* parts: the handler asks cardRef.measure for the card's position, and    *)
(* the answer sets draggedCard.  The restart button may be pressed between *)
(* the two; every other handler waits for the answer.  The game is         *)
(* followed up to the first drop whose drag did not hold the top cards of  *)
(* its source.                                                             *)
(***************************************************************************)
MeasureAnswered == call = NoCall /\ ~StaleDrop

RestartDragCard ==
    /\ MeasureAnswered
    /\ draggedCard = NoDrag
    /\ \E columnIndex \in 0..(NumPiles - 1) :
        \E cardIndex \in 0..(Len(tableau[columnIndex + 1].cards) - 1) :
            onCardPanResponderGrantMeasure(columnIndex, cardIndex)

RestartMeasured == measureCallback

RestartDuringMeasure ==
    /\ call # NoCall
    /\ handleRefresh

RestartDragWaste == MeasureAnswered /\ DragWaste

RestartRelease == MeasureAnswered /\ Release

RestartReleaseOutside == MeasureAnswered /\ ReleaseOutside

RestartPressStock == MeasureAnswered /\ PressStock

RestartPressRefresh == MeasureAnswered /\ PressRefresh

NextRestart ==
    \/ RestartDragCard
    \/ RestartMeasured
    \/ RestartDuringMeasure
    \/ RestartDragWaste
    \/ RestartRelease
    \/ RestartReleaseOutside
    \/ RestartPressStock
    \/ RestartPressRefresh

SpecRestart == Init /\ [][NextRestart]_vars

(***************************************************************************)
(* The validators called on their own: the arguments are slices of decks,  *)
(* as the runs and piles of a game are                                     *)
(***************************************************************************)
Decks == {createDeck} \cup {shuffleDeck(createDeck, rnd) : rnd \in GameRandomSources}

\* deck.slice(from, from + len) for every deck, start and length up to maxLen
SlicesUpTo(maxLen) ==
    {SubSeq(deck, w[1] + 1, w[1] + w[2]) :
        deck \in Decks,
        w \in {v \in (0..(FullDeckSize - 1)) \X (0..maxLen) : v[1] + v[2] <= FullDeckSize}}

ValidatorRuns == SlicesUpTo(MaxRunLen)

ValidatorTargets == SlicesUpTo(MaxTargetLen)

InitValidators ==
    /\ LET g == dealCards(createDeck)
       IN  /\ tableau = g.tableau
           /\ foundation = g.foundation
           /\ stock = g.stock
           /\ waste = g.waste
    /\ draggedCard = NoDrag
    /\ isWinner = FALSE
    /\ last = [op |-> "deal"]
    /\ call \in [fn : {"canPlaceOnTableau", "canPlaceOnFoundation"},
                 cardsToPlace : ValidatorRuns,
                 targetPile : ValidatorTargets,
                 done : {FALSE},
                 threw : {FALSE},
                 result : {FALSE}]

CallCanPlaceOnTableau ==
    /\ call.fn = "canPlaceOnTableau"
    /\ ~call.done
    /\ call' = IF canPlaceOnTableauThrows(call.cardsToPlace, call.targetPile)
               THEN [call EXCEPT !.done = TRUE, !.threw = TRUE]
               ELSE [call EXCEPT !.done = TRUE,
                                 !.result = canPlaceOnTableau(call.cardsToPlace,
                                                              call.targetPile)]
    /\ UNCHANGED <<tableau, foundation, stock, waste, draggedCard, isWinner, last>>

CallCanPlaceOnFoundation ==
    /\ call.fn = "canPlaceOnFoundation"
    /\ ~call.done
    /\ call' = [call EXCEPT !.done = TRUE,
                            !.result = canPlaceOnFoundation(call.cardsToPlace,
                                                            call.targetPile)]
    /\ UNCHANGED <<tableau, foundation, stock, waste, draggedCard, isWinner, last>>

NextValidators ==
    \/ CallCanPlaceOnTableau
    \/ CallCanPlaceOnFoundation

SpecValidators == InitValidators /\ [][NextValidators]_vars

(***************************************************************************)
(* createDeck, shuffleDeck and dealCards called on their own               *)
(***************************************************************************)
\* the decks handed to shuffleDeck: the first n cards of the deck for every n
\* up to MaxShuffleLen, and a deck that holds a card twice
ShuffleInputs ==
    {SubSeq(createDeck, 1, n) : n \in 0..MaxShuffleLen}
        \cup {<<createDeck[1], createDeck[2], createDeck[1]>>}

\* every sequence of values Math.random() can return during a shuffle of n cards
RandomSources(n) == [1..(n - 1) -> 0..(RandomDenominator - 1)]

\* the random sources of the deals made on their own: the value returned at
\* iteration i is (a + b * i) / D
DealRandomSources(n) ==
    {[i \in 1..(n - 1) |-> (a + b * i) % RandomDenominator] :
        a \in 0..(RandomDenominator - 1), b \in 0..(RandomDenominator - 1)}

\* the games dealt on their own: the game played here (the rank ladder ranks,
\* NumPiles piles) and the program's (13 ranks, 7 piles)
DealSizes ==
    {[rankList |-> ranks, numPiles |-> NumPiles],
     [rankList |-> RankNames, numPiles |-> TableauPiles]}

\* call.given is the deck as it was handed over, call.deck the same array as
\* it is now: shuffleDeck reads it ([...deck]) and writes only to its copy
InitDeck ==
    /\ LET g == dealCards(createDeck)
       IN  /\ tableau = g.tableau
           /\ foundation = g.foundation
           /\ stock = g.stock
           /\ waste = g.waste
    /\ draggedCard = NoDrag
    /\ isWinner = FALSE
    /\ last = [op |-> "deal"]
    /\ \/ \E size \in DealSizes :
            call = [fn |-> "createDeck", size |-> size, done |-> FALSE,
                    results |-> <<>>]
       \/ \E deck \in ShuffleInputs :
            call = [fn |-> "shuffleDeck", given |-> deck, deck |-> deck,
                    done |-> FALSE, rnd |-> <<>>, result |-> <<>>]
       \/ \E size \in DealSizes :
            call = [fn |-> "dealCards", size |-> size, done |-> FALSE,
                    rnd |-> <<>>, deck |-> <<>>, result |-> <<>>]

CallCreateDeck ==
    /\ call.fn = "createDeck"
    /\ Len(call.results) < NumCalls
    /\ call' = [call EXCEPT !.done = TRUE,
                            !.results = Append(@, createDeckFrom(suits, call.size.rankList))]
    /\ UNCHANGED <<tableau, foundation, stock, waste, draggedCard, isWinner, last>>

CallShuffleDeck ==
    /\ call.fn = "shuffleDeck"
    /\ ~call.done
    /\ \E rnd \in RandomSources(Len(call.deck)) :
        call' = [call EXCEPT !.done = TRUE,
                             !.rnd = rnd,
                             !.deck = deckAfterShuffle(call.deck, rnd),
                             !.result = shuffleDeck(call.deck, rnd)]
    /\ UNCHANGED <<tableau, foundation, stock, waste, draggedCard, isWinner, last>>

\* dealCards(): const deck = shuffleDeck(createDeck()); ..
CallDealCards ==
    /\ call.fn = "dealCards"
    /\ ~call.done
    /\ \E rnd \in DealRandomSources(Len(suits) * Len(call.size.rankList)) :
        LET deck == shuffleDeck(createDeckFrom(suits, call.size.rankList), rnd)
        IN  call' = [call EXCEPT !.done = TRUE,
                                 !.rnd = rnd,
                                 !.deck = deck,
                                 !.result = dealCardsInto(deck, call.size.numPiles)]
    /\ UNCHANGED <<tableau, foundation, stock, waste, draggedCard, isWinner, last>>

NextDeck ==
    \/ CallCreateDeck
    \/ CallShuffleDeck
    \/ CallDealCards

SpecDeck == InitDeck /\ [][NextDeck]_vars

(***************************************************************************)
(* Passes through the stock: the game is played one gesture at a time, and *)
(* from any state between two gestures the stock is pressed again and      *)
(* again with no move in between, once more than there are cards in the    *)
(* stock and the waste.  call holds the state the presses started in and   *)
(* their number.  The presses are also made on the program's own deal (52  *)
(* cards, 7 piles), which is not played.                                   *)
(***************************************************************************)
InitDraws ==
    \/ Init
    \/ \E rnd \in DealRandomSources(Len(suits) * Len(RankNames)) :
        LET g == dealCardsInto(shuffleDeck(createDeckFrom(suits, RankNames), rnd),
                               TableauPiles)
        IN  /\ tableau = g.tableau
            /\ foundation = g.foundation
            /\ stock = g.stock
            /\ waste = g.waste
            /\ draggedCard = NoDrag
            /\ isWinner = FALSE
            /\ call = [fn |-> "draws", start |-> g, count |-> 0]
            /\ last = [op |-> "deal"]

DrawsDragCard == call = NoCall /\ DragCard

DrawsDragWaste == call = NoCall /\ DragWaste

DrawsRelease == call = NoCall /\ Release

DrawsReleaseOutside == call = NoCall /\ ReleaseOutside

DrawsPressStock == call = NoCall /\ PressStock

DrawsPressRefresh == call = NoCall /\ PressRefresh

StartDraws ==
    /\ call = NoCall
    /\ draggedCard = NoDrag
    /\ call' = [fn |-> "draws", start |-> GameState, count |-> 0]
    /\ UNCHANGED <<tableau, foundation, stock, waste, draggedCard, isWinner, last>>

CountedDraw ==
    /\ call.fn = "draws"
    /\ call.count < Len(call.start.stock) + Len(call.start.waste) + 1
    /\ handleDrawCard
    /\ call' = [call EXCEPT !.count = @ + 1]

NextDraws ==
    \/ DrawsDragCard
    \/ DrawsDragWaste
    \/ DrawsRelease
    \/ DrawsReleaseOutside
    \/ DrawsPressStock
    \/ DrawsPressRefresh
    \/ StartDraws
    \/ CountedDraw

SpecDraws == InitDraws /\ [][NextDraws]_vars

(***************************************************************************)
(* Claims                                                                  *)
(***************************************************************************)
RECURSIVE Flatten(_)
\* the cards of a sequence of card sequences, one after the other
Flatten(piles) ==
    IF Len(piles) = 0 THEN <<>> ELSE piles[1] \o Flatten(Tail(piles))

\* every card of the tableau, the foundations, the stock and the waste
AllCards ==
    Flatten([k \in 1..Len(tableau) |-> tableau[k].cards])
        \o Flatten(foundation) \o stock \o waste

Occurrences(card, cards) == Cardinality({k \in 1..Len(cards) : cards[k] = card})

LadderValue(rank) == CHOOSE v \in 1..Len(ranks) : ranks[v] = rank

IsRedSuit(suit) == suit \in {"hearts", "diamonds"}

\* the tableau rule: a King on an empty pile, else one lower than the top card
\* and of the other colour; only the first card of the run counts
TableauRule(run, target) ==
    IF target = <<>>
    THEN run[1].rank = "K"
    ELSE /\ LadderValue(run[1].rank) = LadderValue(target[Len(target)].rank) - 1
         /\ IsRedSuit(run[1].suit) # IsRedSuit(target[Len(target)].suit)

FoundationRule(card, target) ==
    IF target = <<>>
    THEN card.rank = "A"
    ELSE /\ card.suit = target[Len(target)].suit
         /\ LadderValue(card.rank) = LadderValue(target[Len(target)].rank) + 1

Before == last.before

Moved == last.op = "moved"

\* the tableau pile the last drop's drag was started on, before and after
SourceBefore == Before.tableau[last.drag.columnIndex + 1]

SourceAfter == tableau[last.drag.columnIndex + 1]

\* C5: reveal on removal. When a validated drop removes from a tableau pile a
\* run that is the whole face-up portion and cards remain underneath, the
\* pile's faceUpCount afterwards is exactly 1; when the run is a proper part of
\* the face-up portion, faceUpCount decreases by exactly run.length.
C5_RevealOnRemoval ==
    (Moved /\ last.drag.source = "tableau")
        => LET n == Len(last.drag.cards)
           IN  /\ (n = SourceBefore.faceUpCount /\ Len(SourceBefore.cards) > n)
                    => SourceAfter.faceUpCount = 1
               /\ n < SourceBefore.faceUpCount
                    => SourceAfter.faceUpCount = SourceBefore.faceUpCount - n

\* C5 witness: a drop has just taken the whole face-up portion of a tableau
\* pile with cards underneath, and the pile's new top card is face-up.
C5_Witness ==
    /\ Moved
    /\ last.drag.source = "tableau"
    /\ Len(last.drag.cards) = SourceBefore.faceUpCount
    /\ Len(SourceBefore.cards) > Len(last.drag.cards)
    /\ SourceAfter.faceUpCount = 1

\* the piles a drop leaves alone: the stock, every tableau pile but the
\* source and the destination, every foundation pile but the destination
UntouchedAreUnchanged(sourceColumns, destination) ==
    /\ stock = Before.stock
    /\ \A k \in 0..(Len(tableau) - 1) :
        (k \notin sourceColumns /\ destination # [type |-> "tableau", index |-> k])
            => tableau[k + 1] = Before.tableau[k + 1]
    /\ \A k \in 0..(Len(foundation) - 1) :
        destination # [type |-> "foundation", index |-> k]
            => foundation[k + 1] = Before.foundation[k + 1]

C8_DrawFromStock ==
    last.op = "draw"
        => /\ Len(Before.stock) > 0
           /\ stock = SubSeq(Before.stock, 1, Len(Before.stock) - 1)
           /\ waste = Before.waste \o <<Before.stock[Len(Before.stock)]>>
           /\ Len(stock) = Len(Before.stock) - 1
           /\ Len(waste) = Len(Before.waste) + 1
           /\ tableau = Before.tableau
           /\ foundation = Before.foundation

\* C8 witness: a card has just been drawn onto a non-empty waste from a stock
\* that still has cards.
C8_Witness ==
    /\ last.op = "draw"
    /\ Len(waste) >= 2
    /\ Len(stock) >= 1

\* C9: a draw with empty stock and non-empty waste makes stock the old waste
\* in reversed order (the bottom of the old waste is the last element of the
\* new stock) and empties waste; tableau and foundations are unchanged.
C9_Recycle ==
    last.op = "recycle"
        => /\ Len(Before.stock) = 0
           /\ Len(Before.waste) > 0
           /\ Len(stock) = Len(Before.waste)
           /\ \A k \in 1..Len(Before.waste) :
                stock[k] = Before.waste[Len(Before.waste) + 1 - k]
           /\ stock[Len(stock)] = Before.waste[1]
           /\ waste = <<>>
           /\ tableau = Before.tableau
           /\ foundation = Before.foundation

\* C9 witness: the waste has just been recycled into a stock of several cards.
C9_Witness ==
    /\ last.op = "recycle"
    /\ Len(stock) >= 2
    /\ Len(waste) = 0

\* C10: a draw when both stock and waste are empty changes nothing.
C10_DrawOnEmptyIsNoOp ==
    last.op = "drawNothing"
        => /\ Len(Before.stock) = 0
           /\ Len(Before.waste) = 0
           /\ GameState = Before

\* C10 witness: the stock was pressed with stock and waste both empty.
C10_Witness ==
    /\ last.op = "drawNothing"
    /\ Len(stock) = 0
    /\ Len(waste) = 0

\* the two ways of winning, as stated: (a) every card of the deck lies on the
\* foundations; (b) every tableau pile has faceUpCount = cards.length and the
\* stock and the waste are both empty
WinA == SumLengths(foundation) = FullDeckSize

WinB ==
    /\ \A k \in 1..Len(tableau) : tableau[k].faceUpCount = Len(tableau[k].cards)
    /\ Len(stock) = 0
    /\ Len(waste) = 0

TopCardDrag(g, k) ==
    [source |-> "tableau",
     columnIndex |-> k,
     cardIndex |-> Len(g.tableau[k + 1].cards) - 1,
     cards |-> <<Last(g.tableau[k + 1].cards)>>]

\* the top card of tableau pile k is accepted on foundation pile j
TopCardGoesToFoundation(g, k, j) ==
    /\ Len(g.tableau[k + 1].cards) > 0
    /\ canPlaceOnFoundation(TopCardDrag(g, k).cards, g.foundation[j + 1])

\* game g after the drop of the top card of pile k on foundation pile j
AfterFoundationMove(g, k, j) ==
    AddToDestination(TopCardDrag(g, k), [type |-> "foundation", index |-> j],
                     RemoveFromSource(TopCardDrag(g, k), g))

RECURSIVE CompletableByFoundationMoves(_)
\* some sequence of drops of tableau top cards on the foundations, each one
\* accepted by canPlaceOnFoundation, ends with the whole deck on the foundations
CompletableByFoundationMoves(g) ==
    \/ SumLengths(g.foundation) = FullDeckSize
    \/ \E k \in 0..(Len(g.tableau) - 1) :
        \E j \in 0..(Len(g.foundation) - 1) :
            /\ TopCardGoesToFoundation(g, k, j)
            /\ CompletableByFoundationMoves(AfterFoundationMove(g, k, j))

TableauSize(numPiles) == (numPiles * (numPiles + 1)) \div 2

\* C13: deal layout. For every shuffled deck D, dealCards gives tableau pile k
\* (k = 0..6) exactly the k+1 consecutive cards D[k(k+1)/2 .. k(k+1)/2 + k] in
\* deck order with faceUpCount 1, makes the stock D[28..51] in deck order (24
\* cards), leaves the waste and the 4 foundation piles empty; the piles
\* partition the 52 cards.  Stated for the program's deal and for the smaller
\* deal of the games played here.
C13_DealLayout ==
    (call.fn = "dealCards" /\ call.done)
        => LET D == call.deck
               g == call.result
               n == call.size.numPiles
               whole == createDeckFrom(suits, call.size.rankList)
               dealt == Flatten([k \in 1..Len(g.tableau) |-> g.tableau[k].cards])
                            \o Flatten(g.foundation) \o g.stock \o g.waste
           IN  /\ Len(g.tableau) = n
               /\ \A k \in 0..(n - 1) :
                    /\ Len(g.tableau[k + 1].cards) = k + 1
                    /\ \A m \in 0..k :
                        g.tableau[k + 1].cards[m + 1] = D[((k * (k + 1)) \div 2) + m + 1]
                    /\ g.tableau[k + 1].faceUpCount = 1
               /\ Len(g.stock) = Len(D) - TableauSize(n)
               /\ \A m \in 0..(Len(g.stock) - 1) :
                    g.stock[m + 1] = D[TableauSize(n) + m + 1]
               /\ g.waste = <<>>
               /\ g.foundation = <<<<>>, <<>>, <<>>, <<>>>>
               /\ Len(dealt) = Len(whole)
               /\ \A k \in 1..Len(whole) : Occurrences(whole[k], dealt) = 1
               /\ call.size.rankList = RankNames
                    => /\ n = 7
                       /\ Len(D) = 52
                       /\ TableauSize(n) = 28
                       /\ Len(g.stock) = 24
                       /\ g.stock = SubSeq(D, 29, 52)

\* C13 witness: the program's deck, reordered by the shuffle, was dealt, the
\* last pile receiving 7 cards and the stock the rest.
C13_Witness ==
    /\ call.fn = "dealCards"
    /\ call.done
    /\ call.size.rankList = RankNames
    /\ call.deck # createDeckFrom(suits, RankNames)
    /\ Len(call.result.tableau[TableauPiles].cards) = TableauPiles
    /\ Len(call.result.stock) >= 2

\* the canonical orders, as stated
CanonicalSuits == <<"hearts", "diamonds", "clubs", "spades">>

CanonicalRanks == <<"A", "2", "3", "4", "5", "6", "7", "8", "9", "10", "J", "Q", "K">>

PositionIn(list, x) == CHOOSE k \in 1..Len(list) : list[k] = x

\* deck holds one card for each pair of a suit and a rank of rankList, with
\* pairwise distinct ids, suit by suit in the canonical order and, within a
\* suit, by ascending rank
IsCanonicalDeck(deck, rankList) ==
    /\ Len(deck) = Len(CanonicalSuits) * Len(rankList)
    /\ \A a \in 1..Len(CanonicalSuits) : \A b \in 1..Len(rankList) :
        Cardinality({k \in 1..Len(deck) :
                        /\ deck[k].suit = CanonicalSuits[a]
                        /\ deck[k].rank = rankList[b]}) = 1
    /\ \A k \in 1..Len(deck) : \A m \in 1..Len(deck) :
        /\ k # m => deck[k].id # deck[m].id
        /\ k < m =>
            \/ PositionIn(CanonicalSuits, deck[k].suit)
                    < PositionIn(CanonicalSuits, deck[m].suit)
            \/ /\ deck[k].suit = deck[m].suit
               /\ PositionIn(CanonicalRanks, deck[k].rank)
                    < PositionIn(CanonicalRanks, deck[m].rank)

\* C14: createDeck returns exactly 52 cards, one for each (suit, rank) pair
\* with no duplicates and pairwise distinct ids, in canonical order: suits in
\* the order hearts, diamonds, clubs, spades and, within each suit, ranks
\* ascending A,2,..,10,J,Q,K; the result is the same on every call.  Stated for
\* the program's 13 ranks and for the rank ladder of the games played here.
C14_CreateDeck ==
    call.fn = "createDeck"
        => /\ \A c \in 1..Len(call.results) :
                /\ IsCanonicalDeck(call.results[c], call.size.rankList)
                /\ call.results[c] = call.results[1]
                /\ call.size.rankList = CanonicalRanks
                    => /\ Len(call.results[c]) = 52
                       /\ call.results[c][1].id = "hearts-A"
                       /\ call.results[c][23].id = "diamonds-10"
                       /\ call.results[c][52].id = "spades-K"

\* C14 witness: the program's deck of 13 ranks has been built twice.
C14_Witness ==
    /\ call.fn = "createDeck"
    /\ call.size.rankList = CanonicalRanks
    /\ Len(call.results) >= 2
    /\ Len(call.results[2]) = 52

ChoiceSequence(rnd) == [i \in 1..Len(rnd) |-> RandomIndex(rnd[i], i)]

\* every way of choosing j in [0, i] for i = n - 1 down to 1
AllChoiceSequences(n) == {c \in [1..(n - 1) -> 0..(n - 1)] : \A i \in 1..(n - 1) : c[i] <= i}

\* every order of the cards of a deck of pairwise distinct cards
Orders(deck) ==
    {p \in [1..Len(deck) -> {deck[k] : k \in 1..Len(deck)}] :
        \A k \in 1..Len(deck) : \A m \in 1..Len(deck) : k # m => p[k] # p[m]}

HasDistinctCards(deck) ==
    \A k \in 1..Len(deck) : \A m \in 1..Len(deck) : k # m => deck[k] # deck[m]

\* C16: shuffleDeck is unbiased. With index j chosen in [0, i] for each i from
\* the last down to 1, the output is a function of the choice sequence, and
\* that function is a bijection from the choice sequences onto the orders of
\* the input: every order is produced by exactly one choice sequence (so each
\* order is equally likely when every j is uniform on [0, i]).
C16_ShuffleIsBijection ==
    (call.fn = "shuffleDeck" /\ HasDistinctCards(call.given))
        => LET deck == call.given
               runs == {<<ChoiceSequence(rnd), shuffleDeck(deck, rnd)>> :
                            rnd \in RandomSources(Len(deck))}
               choices == {run[1] : run \in runs}
               outputs == {run[2] : run \in runs}
           IN  /\ choices = AllChoiceSequences(Len(deck))
               /\ Cardinality(runs) = Cardinality(choices)
               /\ outputs = Orders(deck)
               /\ Cardinality(outputs) = Cardinality(choices)
               /\ \A order \in Orders(deck) :
                    Cardinality({run \in runs : run[2] = order}) = 1
               /\ call.done
                    => <<ChoiceSequence(call.rnd), call.result>> \in runs

\* C16 witness: a deck of MaxShuffleLen distinct cards came out of the shuffle
\* in reversed order.
C16_Witness ==
    /\ call.fn = "shuffleDeck"
    /\ call.done
    /\ HasDistinctCards(call.given)
    /\ Len(call.given) = MaxShuffleLen
    /\ call.result = Reverse(call.given)

SuitAssignments ==
    {a \in [1..NumFoundations -> {suits[k] : k \in 1..Len(suits)}] :
        \A j \in 1..NumFoundations : \A m \in 1..NumFoundations : j # m => a[j] # a[m]}

FoundationZone(j) == [type |-> "foundation", index |-> j]

\* the drag in progress is accepted on foundation pile j (0-based)
AcceptedOnFoundation(j) ==
    /\ draggedCard # NoDrag
    /\ isValid(draggedCard, FoundationZone(j), tableau, foundation)

C19_ValidatorsNeverThrow ==
    (call.fn \in {"canPlaceOnTableau", "canPlaceOnFoundation"} /\ call.done)
        => /\ ~call.threw
           /\ call.result \in BOOLEAN
           /\ GameState = dealCards(createDeck)
           /\ draggedCard = NoDrag

\* C20: gestures are serialized. Under every interleaving of drag starts
\* (tableau or waste), stock draws, restarts and drops, at the moment
\* handleDrop applies a move the cards held in the drag state are exactly the
\* cards on top of the source pile (for a waste drag: the waste's top card), so
\* the cards removed from the source are the cards inserted at the destination.
C20_DragHoldsSourceTop ==
    Moved
        => LET d == last.drag
           IN  /\ IF d.source = "tableau"
                  THEN /\ d.cards = Slice(SourceBefore.cards, d.cardIndex)
                       /\ SourceAfter.cards \o d.cards = SourceBefore.cards
                  ELSE /\ Len(Before.waste) >= 1
                       /\ d.cards = <<Last(Before.waste)>>
                       /\ waste \o d.cards = Before.waste
               /\ RemovedFromSource(d, Before) = d.cards

FreshDeal ==
    /\ \A k \in 0..(NumPiles - 1) :
        /\ Len(tableau[k + 1].cards) = k + 1
        /\ tableau[k + 1].faceUpCount = 1
    /\ Len(stock) = FullDeckSize - TableauSize(NumPiles)
    /\ waste = <<>>
    /\ \A k \in 1..NumFoundations : foundation[k] = <<>>
    /\ \A c \in Cards : Occurrences(c, AllCards) = 1

\* C22: restart isolates games. After handleRefresh the state is a fresh deal
\* in the deal layout, the drag state is cleared and the win flag is false;
\* and a drop of a drag that began before the restart (its cards were sliced
\* from a pile of the old game, the restart came before draggedCard was set)
\* performs no move on the new state.
C22_RestartIsolatesGames ==
    /\ last.op = "deal" => (FreshDeal /\ draggedCard = NoDrag /\ ~isWinner)
    /\ ~(Moved /\ last.measuredDuring = "deal")

\* the first part of C22 alone: what handleRefresh leaves behind
C22_RestartResets ==
    last.op = "deal" => (FreshDeal /\ draggedCard = NoDrag /\ ~isWinner)

\* the deal layout on a game g of numPiles piles: pile k holds k+1 cards with
\* one face up, the waste and the foundations are empty
IsDealt(g, numPiles) ==
    /\ Len(g.tableau) = numPiles
    /\ \A k \in 0..(numPiles - 1) :
        /\ Len(g.tableau[k + 1].cards) = k + 1
        /\ g.tableau[k + 1].faceUpCount = 1
    /\ g.waste = <<>>
    /\ \A k \in 1..Len(g.foundation) : g.foundation[k] = <<>>

\* C23: end-to-end draw scenario. Starting from a dealt state and performing
\* only draws, after as many draws as the deal left in the stock (24 in the
\* program's deal of 52 cards into 7 piles) the stock is empty and the waste
\* holds that many cards; one more draw (the 25th) leaves the waste empty and
\* the stock holding the same cards, in the order of the deal; the tableau
\* cards (28) are untouched throughout.
C23_DrawScenario ==
    (call.fn = "draws" /\ IsDealt(call.start, Len(call.start.tableau)))
        => LET n == Len(call.start.stock)
           IN  /\ tableau = call.start.tableau
               /\ foundation = call.start.foundation
               /\ Len(stock) + Len(waste) = n
               /\ call.count <= n => Len(waste) = call.count
               /\ call.count = n => (stock = <<>> /\ Len(waste) = n)
               /\ call.count = n
                    => \A c \in 1..n : Occurrences(call.start.stock[c], waste) = 1
               /\ call.count = n + 1 => (waste = <<>> /\ stock = call.start.stock)
               /\ Len(call.start.tableau) = TableauPiles
                    => /\ n = 24
                       /\ SumLengths([k \in 1..TableauPiles |-> tableau[k].cards]) = 28

\* C23 witness: the 25th draw on the program's deal has recycled the waste.
C23_Witness ==
    /\ call.fn = "draws"
    /\ IsDealt(call.start, TableauPiles)
    /\ Len(call.start.stock) = 24
    /\ call.count = 25
    /\ last.op = "recycle"
    /\ Len(last.before.waste) = 24

\* C28: draw is periodic. From any state with a stock of s cards and a waste of
\* w cards (s + w > 0), exactly s + w + 1 consecutive draws with no move in
\* between return the stock and the waste to exactly the same card sequences
\* (and leave the tableau and the foundations as they were), so every pass
\* through the stock presents the cards in the same order.
C28_DrawIsPeriodic ==
    (call.fn = "draws"
        /\ Len(call.start.stock) + Len(call.start.waste) > 0
        /\ call.count = Len(call.start.stock) + Len(call.start.waste) + 1)
        => /\ stock = call.start.stock
           /\ waste = call.start.waste
           /\ tableau = call.start.tableau
           /\ foundation = call.start.foundation

\* C28 witness: in the middle of a game, after a card has left the waste for
\* good, a full round of draws was started with cards on both piles and has
\* come back to them.
C28_Witness ==
    /\ call.fn = "draws"
    /\ Len(call.start.tableau) = NumPiles
    /\ Len(call.start.stock) >= 2
    /\ Len(call.start.waste) >= 2
    /\ Len(call.start.stock) + Len(call.start.waste) < FullDeckSize - TableauSize(NumPiles)
    /\ call.count = Len(call.start.stock) + Len(call.start.waste) + 1
    /\ stock = call.start.stock

\* the 1-based positions of the face-up cards of a tableau pile
FaceUpPositions(pile) == (Len(pile.cards) - pile.faceUpCount + 1)..Len(pile.cards)

WinCheck(g) == checkWin(g.tableau, g.foundation, g.stock, g.waste)

FaceDownCount(pile) == Len(pile.cards) - pile.faceUpCount

OwnPile(columnIndex) == [type |-> "tableau", index |-> columnIndex]

IsPrefix(a, b) == Len(a) <= Len(b) /\ SubSeq(b, 1, Len(a)) = a

\* C29: foundations only grow. No draw and no drop removes a card from a
\* foundation pile or reorders the cards in it (no move has a foundation as
\* its source), so within one game each foundation pile is an extension of its
\* earlier contents and the total foundation count never decreases.
C29_FoundationsOnlyGrow ==
    /\ draggedCard.source \in {"none", "tableau", "waste"}
    /\ last.op \in {"draw", "recycle", "drawNothing", "rejected", "noDrag"}
        => foundation = Before.foundation
    /\ Moved
        => /\ \A k \in 1..NumFoundations : IsPrefix(Before.foundation[k], foundation[k])
           /\ SumLengths(foundation) >= SumLengths(Before.foundation)
           /\ SumLengths(foundation) <= SumLengths(Before.foundation) + 1
           /\ last.zone.type = "tableau" => foundation = Before.foundation
           /\ last.zone.type = "foundation"
                => foundation[last.zone.index + 1]
                        = Append(Before.foundation[last.zone.index + 1], last.drag.cards[1])

\* C29 witness: a drop has just put a card on a foundation pile that held
\* cards, while another foundation pile holds cards too.
C29_Witness ==
    /\ Moved
    /\ last.zone.type = "foundation"
    /\ Len(Before.foundation[last.zone.index + 1]) >= 1
    /\ \E k \in 1..NumFoundations :
        k # last.zone.index + 1 /\ Len(foundation[k]) >= 1

====
